---------------------------- MODULE Spec2Model ----------------------------
(***************************************************************************)
(* The shape-editing state machine of the PaintApp component               *)
(* (src/unnamed/part_000): the React state of the component, the Konva     *)
(* transformer and its nodes, the scale of the node a drag or resize ended *)
(* on, and the console log.                                                *)
(*                                                                         *)
(* Every handler is one atomic action: the handler reads the state of the  *)
(* last render, queues its setState calls, and the component re-renders    *)
(* before the next event is delivered.                                     *)
(*                                                                         *)
(* Numbers.  The code computes in IEEE doubles.  The model carries every   *)
(* coordinate, extent and scale factor in pixels as (num / den) * sqrt of  *)
(* root, in lowest terms with root square-free; root = 1 for a rational.   *)
(* A value with root = 1 is the double itself (the rationals that occur    *)
(* have power-of-two denominators, for which the arithmetic of the code is *)
(* exact); a value with root > 1 stands for the double nearest to that     *)
(* irrational number, which is what Math.sqrt returns.  The fields of a    *)
(* logged event are whole pixels (Math.round).                             *)
(*                                                                         *)
(* Scheduling.  Whether a setState made in a Konva event handler is        *)
(* applied at once (React 17 and earlier) or batched until the handler     *)
(* returns (React 18) depends on the build; batching holds the choice.     *)
(* It matters only where a handler reads transformerRef after a setState.  *)
(*                                                                         *)
(* Console.  The program only writes to the console; log holds what the    *)
(* last handler wrote (the empty sequence when it logged nothing).         *)
(*                                                                         *)
(* Nodes.  Konva renders one node per list entry; a node is named by the   *)
(* position of its entry.  Entries change position only in handleDelete,   *)
(* which also empties the Transformer.  node records the scale of the node *)
(* the last drag-end or transform-end fired on, as the handler left it.    *)
(***************************************************************************)
EXTENDS Integers, Sequences, FiniteSets, TLC

\* ------------------------------------------------------------------ bounds
\* most shapes created in one run
MaxShapes == 2
\* most drag-end / transform-end events delivered in one run
MaxTransforms == 1
\* largest reading of the millisecond clock
MaxClock == 1

\* ------------------------------------------------------------- input sets
RECTANGLE == "rectangle"
CIRCLE == "circle"
SHAPES == {RECTANGLE, CIRCLE}

\* ------------------------------------------------------------- numbers
IntAbs(v) == IF v < 0 THEN -v ELSE v

RECURSIVE Gcd(_, _)
Gcd(a, b) == IF b = 0 THEN a ELSE Gcd(b, a % b)

\* the rational n / d (d > 0) in lowest terms
Rat(n, d) ==
    LET g == Gcd(IntAbs(n), d)
    IN  [num |-> n \div g, den |-> d \div g, root |-> 1]

Whole(k) == Rat(k, 1)

\* a - b and a + b (operands rational: pointer and node positions)
Minus(a, b) == Rat(a.num * b.den - b.num * a.den, a.den * b.den)
Plus(a, b) == Rat(a.num * b.den + b.num * a.den, a.den * b.den)

\* a * s, with s rational
Times(a, s) ==
    LET n == a.num * s.num
        d == a.den * s.den
        g == Gcd(IntAbs(n), d)
    IN  IF n = 0 THEN Whole(0)
        ELSE [num |-> n \div g, den |-> d \div g, root |-> a.root]

\* Math.abs
MathAbs(a) == [a EXCEPT !.num = IntAbs(a.num)]

\* Math.sqrt of a rational a >= 0: sqrt(p / q) = sqrt(p * q) / q, with the
\* largest square k * k taken out of p * q
MathSqrt(a) ==
    LET m == a.num * a.den
        k == CHOOSE k \in 1..(m + 1) :
                /\ m % (k * k) = 0
                /\ \A j \in (k + 1)..m : m % (j * j) # 0
        g == Gcd(k, a.den)
    IN  IF m = 0 THEN Whole(0)
        ELSE [num |-> k \div g, den |-> a.den \div g, root |-> m \div (k * k)]

\* Math.round: the nearest integer, halves towards +infinity.  For a
\* rational, floor(a + 1/2); an irrational value is never a half, so its
\* nearest integer is the k with (2k - 1) / 2 < |a| < (2k + 1) / 2, signed.
MathRound(a) ==
    IF a.root = 1
    THEN (2 * a.num + a.den) \div (2 * a.den)
    ELSE LET n == IntAbs(a.num)
             k == CHOOSE k \in 0..(n * a.root) :
                     /\ 4 * n * n * a.root < (2 * k + 1) * (2 * k + 1) * a.den * a.den
                     /\ \A j \in 0..(k - 1) :
                           4 * n * n * a.root > (2 * j + 1) * (2 * j + 1) * a.den * a.den
         IN  IF a.num < 0 THEN -k ELSE k

Pt(px, py) == [x |-> Whole(px), y |-> Whole(py)]

\* pointer positions reported by the stage at a pointer-move
Points == {Pt(3, 4), Pt(1, 1)}
\* pointer positions reported by the stage at a pointer-down
DownPoints == {Pt(0, 0), Pt(3, 4)}
\* positions a drag or a resize leaves a node at
NodePoints == {Pt(1, 2)}
\* scale factors <<scaleX, scaleY>> a drag (1, 1) or the transform handle
\* (flipped and shrunk along one axis) leaves
Scales == {<<Whole(1), Whole(1)>>, <<Rat(-1, 2), Whole(1)>>,
           <<Whole(1), Rat(1, 2)>>}
\* values of the random fill
Fills == {"#a1b2c3"}
\* readings of Date.now()
Clock == 0..MaxClock

\* null, and the targets of a pointer-down: the stage itself (empty canvas)
\* or the node of the shape at a list position
Null == [null |-> TRUE]
Stage == [stage |-> TRUE]
OnShape(i) == [shape |-> i]

\* ---------------------------------------------------------------- state
VARIABLES
    shapes,         \* useState([]): the shape list
    selectedShape,  \* useState(null): the selected shape record, or Null
    selectedTool,   \* useState(SHAPES.RECTANGLE)
    isDrawing,      \* useState(false)
    newShape,       \* useState(null): the in-progress shape, or Null
    trNodes,        \* nodes the Transformer is attached to (list positions)
    batching,       \* the build batches setState in Konva handlers (React 18)
    node,           \* the scale factors the last drag-end / transform-end left its node with (Null before the first)
    log,            \* console output: the records the last handler logged
    now,            \* the last reading of Date.now()
    created,        \* how many shapes have been created (history)
    transformed,    \* how many drag-end / transform-end events were delivered (history)
    createLogged,   \* ids a 'create' record has been logged for (history)
    session,        \* pointer positions of the last drawing session (history)
    last            \* the last event delivered (history)

vars == <<shapes, selectedShape, selectedTool, isDrawing, newShape,
          trNodes, batching, node, log, now, created, transformed,
          createLogged, session, last>>

\* ------------------------------------------------------------ event log
\* v || 0
OrZero(v) == IF v = Whole(0) THEN Whole(0) ELSE v

LogRecord(action, shape) ==
    [action |-> action,
     shape  |-> [id     |-> shape.id,
                 type   |-> shape.type,
                 x      |-> MathRound(shape.x),
                 y      |-> MathRound(shape.y),
                 width  |-> MathRound(OrZero(shape.width)),
                 height |-> MathRound(OrZero(shape.height)),
                 radius |-> MathRound(OrZero(shape.radius)),
                 fill   |-> shape.fill]]

\* console.log of one record
logShapeUpdate(action, shape) == <<LogRecord(action, shape)>>

\* ------------------------------------------------------------ rendering
\* the Transformer is rendered, and transformerRef.current set, only while
\* the last render had a selection
TransformerMounted == selectedShape # Null

\* line 108, after setSelectedShape(shape) at line 107: without batching the
\* component has re-rendered with the selection and the ref is set; with
\* batching the ref is still that of the last render
RefSetAfterSelect == IF batching THEN TransformerMounted ELSE TRUE

\* lines 186-218: a node is kept across a render while its entry keeps its
\* type; an entry that changes type gets a new node, which the Transformer
\* is not attached to
KeptNodes(list, updated) ==
    {i \in trNodes : i <= Len(updated) /\ updated[i].type = list[i].type}

\* stage.findOne('#' + id): the first node carrying the id, if any
FindOne(id) ==
    LET hits == {i \in 1..Len(shapes) : shapes[i].id = id}
    IN  IF hits = {} THEN {} ELSE {CHOOSE i \in hits : \A j \in hits : i <= j}

\* the attributes Konva reports for the node rendered for a shape
NodeWidth(shape) ==
    IF shape.type = RECTANGLE THEN MathAbs(shape.width)
    ELSE Times(shape.radius, Whole(2))
NodeHeight(shape) ==
    IF shape.type = RECTANGLE THEN MathAbs(shape.height)
    ELSE Times(shape.radius, Whole(2))
NodeHasRadius(shape) == shape.type = CIRCLE

\* ------------------------------------------------------------- handlers
ShapeId(t) == <<"shape-", t>>

CreatedRectangle(tool, pos, t, fill) ==
    [id |-> ShapeId(t), type |-> RECTANGLE, x |-> pos.x, y |-> pos.y,
     width |-> Whole(0), height |-> Whole(0), radius |-> Whole(0),
     fill |-> fill]
CreatedShape(tool, pos, t, fill) ==
    [id |-> ShapeId(t), type |-> tool, x |-> pos.x, y |-> pos.y,
     width |-> Whole(0), height |-> Whole(0), radius |-> Whole(0),
     fill |-> fill]

\* line 45: if (selectedShape || !clickedOnEmpty) return;
DrawRefusedOffCanvasOnly(clickedOnEmpty) == ~clickedOnEmpty
DrawRefused(clickedOnEmpty) == selectedShape # Null \/ ~clickedOnEmpty

\* lines 38-43: the selection after a pointer-down
NoDeselect(clickedOnEmpty) == selectedShape
DeselectOnEmpty(clickedOnEmpty) ==
    IF clickedOnEmpty THEN Null ELSE selectedShape

\* lines 40-42: the Transformer's nodes after a pointer-down
DetachOnEmpty(clickedOnEmpty) ==
    IF clickedOnEmpty /\ TransformerMounted THEN {} ELSE trNodes

\* lines 52, 73, 81: pos.x, with pos what getPointerPosition() returned;
\* on null the read raises a TypeError and the handler ends there
Throws(pos) == pos = Null

\* pos is what getPointerPosition() returns (a point, or Null), t the reading
\* of Date.now() (never below the last reading), fill the random colour; all
\* three are read only when a shape is created
handleMouseDown(target, pos, t, fill) ==
    LET clickedOnEmpty == target = Stage IN
    /\ selectedShape' = DeselectOnEmpty(clickedOnEmpty)
    /\ trNodes' = DetachOnEmpty(clickedOnEmpty)
    /\ last' = [op |-> "mouseDown", onStage |-> clickedOnEmpty,
                selected |-> selectedShape # Null,
                noPointer |-> ~DrawRefused(clickedOnEmpty) /\ pos = Null,
                threw |-> ~DrawRefused(clickedOnEmpty) /\ Throws(pos)]
    /\ IF DrawRefused(clickedOnEmpty)
       THEN UNCHANGED <<shapes, isDrawing, newShape, now, created, session>>
       ELSE IF Throws(pos)
       THEN UNCHANGED <<shapes, isDrawing, newShape, now, created, session>>
       ELSE /\ created < MaxShapes
            /\ created' = created + 1
            /\ t >= now
            /\ now' = t
            /\ newShape' = CreatedShape(selectedTool, pos, t, fill)
            /\ shapes' = Append(shapes, CreatedShape(selectedTool, pos, t, fill))
            /\ isDrawing' = TRUE
            /\ session' = [down |-> pos, move |-> Null]
    /\ log' = <<>>
    /\ UNCHANGED <<selectedTool, batching, node, transformed, createLogged>>

\* lines 71-75: the in-progress rectangle stretched to the pointer
RectUpdateFromExtent(shape, pos) ==
    [shape EXCEPT !.width = Minus(pos.x, Plus(shape.x, shape.width)),
                  !.height = Minus(pos.y, Plus(shape.y, shape.height))]
RectUpdate(shape, pos) ==
    [shape EXCEPT !.width = Minus(pos.x, shape.x),
                  !.height = Minus(pos.y, shape.y)]

\* lines 81-87: the in-progress circle through the pointer
CircleUpdateManhattan(shape, pos) ==
    [shape EXCEPT !.radius = Plus(MathAbs(Minus(pos.x, shape.x)),
                                  MathAbs(Minus(pos.y, shape.y)))]
CircleUpdate(shape, pos) ==
    LET dx == Minus(pos.x, shape.x)
        dy == Minus(pos.y, shape.y)
    IN  [shape EXCEPT
            !.radius = MathSqrt(Plus(Times(dx, dx), Times(dy, dy)))]

\* shapes.map(shape => shape.id === updated.id ? updated : shape)
ReplaceById(list, updated) ==
    [i \in 1..Len(list) |-> IF list[i].id = updated.id THEN updated ELSE list[i]]

\* line 66: if (!isDrawing || !newShape) return;
MoveIgnored == ~isDrawing \/ newShape = Null

handleMouseMove(pos) ==
    /\ last' = [op |-> "mouseMove", drawing |-> ~MoveIgnored,
                noPointer |-> ~MoveIgnored /\ pos = Null,
                threw |-> ~MoveIgnored /\ Throws(pos)]
    /\ IF MoveIgnored
       THEN UNCHANGED <<shapes, newShape, trNodes, session>>
       ELSE IF Throws(pos)
       THEN UNCHANGED <<shapes, newShape, trNodes, session>>
       ELSE LET updatedShape ==
                    IF newShape.type = RECTANGLE
                    THEN RectUpdate(newShape, pos)
                    ELSE CircleUpdate(newShape, pos)
            IN  /\ shapes' = ReplaceById(shapes, updatedShape)
                /\ trNodes' = KeptNodes(shapes, ReplaceById(shapes, updatedShape))
                /\ newShape' = updatedShape
                /\ session' = [session EXCEPT !.move = pos]
    /\ log' = <<>>
    /\ UNCHANGED <<selectedShape, selectedTool, isDrawing, batching, node, now,
                   created, transformed, createLogged>>

\* line 98: what a committing pointer-up logs
CommitLogAsModify(shape) == logShapeUpdate("modify", shape)
CommitLog(shape) == logShapeUpdate("create", shape)

\* line 96: if (isDrawing && newShape)
UpCommits == isDrawing /\ newShape # Null

\* line 100: setNewShape(null)
NewShapeKeptAfterCommit == newShape
NewShapeAfterCommit == Null

handleMouseUp ==
    /\ last' = [op |-> "mouseUp", drawing |-> UpCommits]
    /\ IF UpCommits
       THEN /\ log' = CommitLog(newShape)
            /\ createLogged' =
                  createLogged \cup
                     {log'[k].shape.id : k \in {j \in 1..Len(log') :
                                                  log'[j].action = "create"}}
            /\ isDrawing' = FALSE
            /\ newShape' = NewShapeAfterCommit
       ELSE /\ log' = <<>>
            /\ UNCHANGED <<isDrawing, newShape, createLogged>>
    /\ UNCHANGED <<shapes, selectedShape, selectedTool, trNodes, batching,
                   node, now, created, transformed, session>>

\* lines 108-115: the Transformer's nodes after a click on a shape
AttachOnSelect(shape) ==
    IF RefSetAfterSelect /\ FindOne(shape.id) # {}
    THEN FindOne(shape.id)
    ELSE trNodes

handleShapeSelect(i) ==
    /\ selectedShape' = shapes[i]
    /\ trNodes' = AttachOnSelect(shapes[i])
    /\ last' = [op |-> "select"]
    /\ log' = <<>>
    /\ UNCHANGED <<shapes, selectedTool, isDrawing, newShape, batching, node,
                   now, created, transformed, createLogged, session>>

\* lines 126-133: the entry found for the node's id, with the node's geometry
UpdatedShape(n) ==
    LET own  == shapes[n.at]
        base == shapes[CHOOSE i \in FindOne(own.id) : TRUE]
    IN  [base EXCEPT
            !.x = n.x,
            !.y = n.y,
            !.width = MathAbs(Times(NodeWidth(own), n.scaleX)),
            !.height = MathAbs(Times(NodeHeight(own), n.scaleY)),
            !.radius = IF NodeHasRadius(own)
                       THEN MathAbs(Times(own.radius, n.scaleX))
                       ELSE Whole(0)]

\* lines 123-124: node.scaleX(1); node.scaleY(1)
ScaleKept(n) == n
ResetScale(n) == [n EXCEPT !.scaleX = Whole(1), !.scaleY = Whole(1)]

\* e.target at a drag-end / transform-end: the node rendered for the entry
\* at position i, left by the drag at p and by the transform handle with
\* scale factors sx, sy
EventNode(i, p, sx, sy) ==
    [at |-> i, x |-> p.x, y |-> p.y, scaleX |-> sx, scaleY |-> sy]

\* the scale factors of a node
NodeScale(n) == [scaleX |-> n.scaleX, scaleY |-> n.scaleY]

\* A drag leaves the scale at 1; only the transform handle changes it, and
\* only on a node it is attached to.
handleTransformEnd(i, p, sx, sy) ==
    /\ IF sx = Whole(1) /\ sy = Whole(1) THEN TRUE ELSE i \in trNodes
    /\ node' = NodeScale(ResetScale(EventNode(i, p, sx, sy)))
    /\ shapes' = ReplaceById(shapes, UpdatedShape(EventNode(i, p, sx, sy)))
    /\ trNodes' =
          KeptNodes(shapes,
                    ReplaceById(shapes, UpdatedShape(EventNode(i, p, sx, sy))))
    /\ log' = logShapeUpdate("modify", UpdatedShape(EventNode(i, p, sx, sy)))
    /\ last' = [op |-> "transformEnd", at |-> i, scaleX |-> sx, scaleY |-> sy]
    /\ transformed < MaxTransforms
    /\ transformed' = transformed + 1
    /\ UNCHANGED <<selectedShape, selectedTool, isDrawing, newShape, batching,
                   now, created, createLogged, session>>

\* shapes.filter(shape => shape.id !== id)
RemoveById(list, id) == SelectSeq(list, LAMBDA s : s.id # id)

\* line 146: setSelectedShape(null)
SelectionKeptAfterDelete == selectedShape
SelectionAfterDelete == Null

handleDelete ==
    /\ last' = [op |-> "delete", selected |-> selectedShape # Null]
    /\ IF selectedShape # Null
       THEN /\ log' = logShapeUpdate("delete", selectedShape)
            /\ shapes' = RemoveById(shapes, selectedShape.id)
            /\ selectedShape' = SelectionAfterDelete
            /\ trNodes' = {}
       ELSE /\ log' = <<>>
            /\ UNCHANGED <<shapes, selectedShape, trNodes>>
    /\ UNCHANGED <<selectedTool, isDrawing, newShape, batching, node, now,
                   created, transformed, createLogged, session>>

\* the toolbar's tool buttons
setSelectedTool(tool) ==
    /\ tool # selectedTool
    /\ selectedTool' = tool
    /\ last' = [op |-> "tool"]
    /\ log' = <<>>
    /\ UNCHANGED <<shapes, selectedShape, isDrawing, newShape, trNodes,
                   batching, node, now, created, transformed, createLogged,
                   session>>

Init ==
    /\ shapes = <<>>
    /\ selectedShape = Null
    /\ selectedTool = RECTANGLE
    /\ isDrawing = FALSE
    /\ newShape = Null
    /\ trNodes = {}
    /\ batching \in BOOLEAN
    /\ node = Null
    /\ log = <<>>
    /\ now = 0
    /\ created = 0
    /\ transformed = 0
    /\ createLogged = {}
    /\ session = Null
    /\ last = [op |-> "init"]

\* what the stage and the clock can return to a handler that reads them; a
\* handler that returns before the read gets no reading
DownReadings(target) ==
    IF DrawRefused(target = Stage) THEN {Null} ELSE DownPoints \cup {Null}
ClockReadings(target) ==
    IF DrawRefused(target = Stage) THEN {now} ELSE Clock
MoveReadings == IF MoveIgnored THEN {Null} ELSE Points \cup {Null}

Next ==
    \/ \E target \in {Stage} \cup {OnShape(i) : i \in 1..Len(shapes)} :
          \E pos \in DownReadings(target), t \in ClockReadings(target),
             fill \in Fills :
             handleMouseDown(target, pos, t, fill)
    \/ \E pos \in MoveReadings : handleMouseMove(pos)
    \/ handleMouseUp
    \/ \E i \in 1..Len(shapes) : handleShapeSelect(i)
    \/ \E i \in 1..Len(shapes), p \in NodePoints, s \in Scales :
          handleTransformEnd(i, p, s[1], s[2])
    \/ handleDelete
    \/ \E tool \in SHAPES : setSelectedTool(tool)

Spec == Init /\ [][Next]_vars

\* ------------------------------------------------------------- claims
OneRecord(action) == Len(log) = 1 /\ log[1].action = action

\* C1: every create / modify / delete produces exactly one logged event: a
\* pointer-up that ends a drawing session logs exactly one record, tagged
\* "create"; a transform-end or drag-end logs exactly one "modify"; a delete
\* with a selection logs exactly one "delete"; no other handler (pointer-down,
\* pointer-move, select, tool change, an idle pointer-up, a delete without a
\* selection) logs anything.
C1_OneEventPerMutation ==
    /\ last.op = "mouseUp" =>
          IF last.drawing THEN OneRecord("create") ELSE log = <<>>
    /\ last.op = "transformEnd" => OneRecord("modify")
    /\ last.op = "delete" =>
          IF last.selected THEN OneRecord("delete") ELSE log = <<>>
    /\ last.op \in {"init", "mouseDown", "mouseMove", "select", "tool"} =>
          log = <<>>

\* a draw gesture with a pointer-move has just been completed by its pointer-up
C1_Witness ==
    /\ last.op = "mouseUp"
    /\ last.drawing
    /\ session.move # Null
    /\ OneRecord("create")
    /\ ~isDrawing

\* C2: the shape list never holds two entries with the same id.
C2_UniqueIds ==
    \A i, j \in 1..Len(shapes) : i # j => shapes[i].id # shapes[j].id

\* the list without its entry at position p
WithoutAt(list, p) == SubSeq(list, 1, p - 1) \o SubSeq(list, p + 1, Len(list))

\* C3: a delete with a selection removes exactly the selected shape: one
\* entry, carrying the selected id, leaves the list, no entry with that id
\* stays, every other entry stays unchanged and in order, and the selection
\* is cleared.
C3_DeleteRemovesExactlySelected ==
    [][(selectedShape # Null /\ last'.op = "delete") =>
          /\ \E p \in 1..Len(shapes) :
                /\ shapes[p].id = selectedShape.id
                /\ shapes' = WithoutAt(shapes, p)
          /\ \A i \in 1..Len(shapes') : shapes'[i].id # selectedShape.id
          /\ selectedShape' = Null]_vars

\* the pointer-up ends, right after a processed pointer-move, a drawing
\* session whose in-progress shape has the given type
CommitsAfterMove(type) ==
    /\ last.op = "mouseMove"
    /\ last.drawing
    /\ ~last.threw
    /\ UpCommits
    /\ newShape.type = type
    /\ last'.op = "mouseUp"

\* C4: a rectangle gesture - pointer-down at (x0,y0), pointer-moves the last
\* of which is at (x1,y1), pointer-up - commits a shape with x = x0, y = y0,
\* width = x1 - x0, height = y1 - y0, whatever the earlier pointer-moves were:
\* the shape written to the "create" record and every list entry carrying its
\* id have these values.
C4_RectangleGesture ==
    [][CommitsAfterMove(RECTANGLE) =>
          LET committed == [newShape EXCEPT
                               !.x = session.down.x,
                               !.y = session.down.y,
                               !.width = Minus(session.move.x, session.down.x),
                               !.height = Minus(session.move.y, session.down.y)]
          IN  /\ newShape = committed
              /\ \A i \in 1..Len(shapes') :
                    shapes'[i].id = newShape.id => shapes'[i] = committed
              /\ Len(log') = 1
              /\ log'[1].shape.width = MathRound(committed.width)
              /\ log'[1].shape.height = MathRound(committed.height)]_vars

\* a rectangle dragged from (0,0) to (3,4) has been committed, 3 by 4
C4_Witness ==
    /\ last.op = "mouseUp"
    /\ last.drawing
    /\ session = [down |-> Pt(0, 0), move |-> Pt(3, 4)]
    /\ OneRecord("create")
    /\ log[1].shape.type = RECTANGLE
    /\ log[1].shape.width = 3
    /\ log[1].shape.height = 4
    /\ \E i \in 1..Len(shapes) :
          shapes[i].width = Whole(3) /\ shapes[i].height = Whole(4)

\* the squared distance between the session's pointer-down and last pointer-move
SessionDistanceSquared ==
    LET dx == Minus(session.move.x, session.down.x)
        dy == Minus(session.move.y, session.down.y)
    IN  Plus(Times(dx, dx), Times(dy, dy))

\* the stored number is the real number it is written as (a rational), not
\* the double nearest to an irrational
Exact(v) == v.root = 1

\* the square of the real number (num / den) * sqrt(root)
Squared(v) == Rat(v.num * v.num * v.root, v.den * v.den)

\* C5 as stated: a circle gesture commits a shape anchored at the pointer-down
\* position whose radius r is exactly the Euclidean distance d to the last
\* pointer-move: r * r = d * d.
C5_RadiusSquaredExact ==
    [][CommitsAfterMove(CIRCLE) =>
          /\ newShape.x = session.down.x
          /\ newShape.y = session.down.y
          /\ Exact(newShape.radius)
          /\ Squared(newShape.radius) = SessionDistanceSquared]_vars

\* C5 amended: the radius is the square root as the arithmetic computes it,
\* the double nearest to the Euclidean distance d: non-negative, the root of
\* d * d; it is d itself, and r * r = d * d, when d is rational; the logged
\* radius is the integer nearest to d; the anchor is the pointer-down
\* position, width and height stay 0, and every list entry carrying the id
\* equals the committed shape.
C5_RadiusNearest ==
    [][CommitsAfterMove(CIRCLE) =>
          LET r == newShape.radius
              n == SessionDistanceSquared
          IN  /\ newShape.x = session.down.x
              /\ newShape.y = session.down.y
              /\ newShape.width = Whole(0)
              /\ newShape.height = Whole(0)
              /\ r.num >= 0
              /\ Squared(r) = n
              /\ Exact(r) <=>
                    \E a \in 0..n.num, b \in 1..n.den :
                       a * a * n.den = n.num * b * b
              /\ \A i \in 1..Len(shapes') :
                    shapes'[i].id = newShape.id => shapes'[i] = newShape
              /\ Len(log') = 1
              /\ LET k == log'[1].shape.radius
                 IN  /\ k >= 0
                     /\ (2 * k - 1) * (2 * k - 1) * n.den <= 4 * n.num \/ k = 0
                     /\ 4 * n.num <= (2 * k + 1) * (2 * k + 1) * n.den]_vars

\* a circle dragged from (0,0) to (3,4) has been committed with radius 5
C5_Witness ==
    /\ last.op = "mouseUp"
    /\ last.drawing
    /\ session = [down |-> Pt(0, 0), move |-> Pt(3, 4)]
    /\ OneRecord("create")
    /\ log[1].shape.type = CIRCLE
    /\ log[1].shape.radius = 5
    /\ \E i \in 1..Len(shapes) : shapes[i].radius = Whole(5)

\* C6: whenever a shape is selected, the transform handle is attached to
\* the selected shape's node and to no other.
C6_SelectedHasHandle ==
    selectedShape # Null =>
        /\ trNodes # {}
        /\ \A i \in trNodes : shapes[i].id = selectedShape.id

\* C7: a pointer-down on empty canvas while a shape is selected clears the
\* selection and empties the Transformer's node set; so in every state with a
\* selection one event (that pointer-down) leads to a state without one, the
\* shape list untouched.
C7_EmptyClickDeselects ==
    /\ (last.op = "mouseDown" /\ last.onStage /\ last.selected) =>
          (selectedShape = Null /\ trNodes = {})
    /\ selectedShape # Null =>
          ENABLED (/\ \E pos \in DownPoints, t \in Clock, fill \in Fills :
                         handleMouseDown(Stage, pos, t, fill)
                   /\ selectedShape' = Null
                   /\ trNodes' = {}
                   /\ shapes' = shapes)

\* a selection with the handle attached has been cleared by a pointer-down
\* on empty canvas, the shape still in the list
C7_Witness ==
    /\ last.op = "mouseDown"
    /\ last.onStage
    /\ last.selected
    /\ selectedShape = Null
    /\ shapes # <<>>

\* C8: a pointer-down while a shape is selected draws nothing: the shape
\* list, the drawing flag and the in-progress shape are unchanged and nothing
\* is logged, on a shape and on empty canvas alike.
C8_NoDrawWhileSelected ==
    [][(selectedShape # Null /\ last'.op = "mouseDown") =>
          /\ shapes' = shapes
          /\ isDrawing' = isDrawing
          /\ newShape' = newShape
          /\ log' = <<>>]_vars

\* a pointer-down on empty canvas arrived while a shape was selected and the
\* shape-creation budget was not used up
C8_Witness ==
    /\ last.op = "mouseDown"
    /\ last.onStage
    /\ last.selected
    /\ created < MaxShapes
    /\ ~isDrawing

\* C9: the drawing flag is raised only by a pointer-down on empty canvas with
\* no selection; such a pointer-down (the stage reporting a pointer position)
\* appends exactly one entry, of the active tool's type, at the pointer
\* position, with zero width, height and radius, and raises the flag; a pointer-down on a shape changes neither the list
\* nor the flag.
C9_EnterDrawing ==
    [][/\ (~isDrawing /\ isDrawing') =>
             (last'.op = "mouseDown" /\ last'.onStage /\ selectedShape = Null)
       /\ (/\ last'.op = "mouseDown"
           /\ last'.onStage
           /\ selectedShape = Null
           /\ ~last'.noPointer) =>
             /\ Len(shapes') = Len(shapes) + 1
             /\ SubSeq(shapes', 1, Len(shapes)) = shapes
             /\ LET e == shapes'[Len(shapes')]
                IN  /\ e.type = selectedTool
                    /\ e.x = session'.down.x
                    /\ e.y = session'.down.y
                    /\ e.width = Whole(0)
                    /\ e.height = Whole(0)
                    /\ e.radius = Whole(0)
             /\ isDrawing'
       /\ (last'.op = "mouseDown" /\ ~last'.onStage) =>
             (shapes' = shapes /\ isDrawing' = isDrawing)]_vars

\* a pointer-down on empty canvas has just started drawing a circle as the
\* second entry of the list
C9_Witness ==
    /\ last.op = "mouseDown"
    /\ last.onStage
    /\ ~last.selected
    /\ isDrawing
    /\ Len(shapes) = 2
    /\ shapes[2] = newShape
    /\ newShape.type = CIRCLE
    /\ newShape.radius = Whole(0)

\* C10: a selection, when present, carries the id of an entry of the list.
C10_SelectionInList ==
    selectedShape # Null =>
        \E i \in 1..Len(shapes) : shapes[i].id = selectedShape.id

\* a shape is selected and, dragged since, its list entry has moved on from
\* the selected record
C10_Witness ==
    /\ last.op = "transformEnd"
    /\ selectedShape # Null
    /\ \E i \in 1..Len(shapes) :
          shapes[i].id = selectedShape.id /\ shapes[i] # selectedShape

\* C11: after every transform-end or drag-end the scaleX and scaleY of the
\* node the event fired on are both 1, whatever they were when it fired.
C11_ScaleReset ==
    last.op = "transformEnd" =>
        (node # Null /\ node.scaleX = Whole(1) /\ node.scaleY = Whole(1))

\* a transform-end has fired on a node the handle had flipped and shrunk
\* along x, and the node's scale is back at 1
C11_Witness ==
    /\ last.op = "transformEnd"
    /\ last.scaleX = Rat(-1, 2)
    /\ node = [scaleX |-> Whole(1), scaleY |-> Whole(1)]

\* C12: the fill, type and id of a list entry never change while it is in
\* the list: a delete only takes entries out, leaving each remaining entry as
\* it was and in order, and every other event leaves the list at least as
\* long, each entry keeping its fill, type and id at its position.
C12_FillTypeIdFixed ==
    [][IF last'.op = "delete"
       THEN \A j \in 1..Len(shapes') :
               \E i \in j..Len(shapes) :
                  /\ shapes'[j].fill = shapes[i].fill
                  /\ shapes'[j].type = shapes[i].type
                  /\ shapes'[j].id = shapes[i].id
       ELSE /\ Len(shapes') >= Len(shapes)
            /\ \A i \in 1..Len(shapes) :
                  /\ shapes'[i].fill = shapes[i].fill
                  /\ shapes'[i].type = shapes[i].type
                  /\ shapes'[i].id = shapes[i].id]_vars

\* the component's state is as the event found it
StateKept ==
    UNCHANGED <<shapes, selectedShape, selectedTool, isDrawing, newShape,
                trNodes, node>>

\* C13: the defensive cases are silent no-ops: a delete without a selection,
\* and a pointer-down (about to draw) or a pointer-move (while drawing) for
\* which the stage reports no pointer position, leave the shape list, the
\* selection, the drawing flag and the in-progress shape as they were, log
\* nothing and raise no error.
C13_DefensiveNoOps ==
    [][/\ (last'.op = "delete" /\ ~last'.selected) =>
             (StateKept /\ log' = <<>>)
       /\ (last'.op \in {"mouseDown", "mouseMove"} /\ last'.noPointer) =>
             (StateKept /\ log' = <<>> /\ ~last'.threw)]_vars

\* C14: the geometry fields a type does not use stay 0: every circle in the
\* list has width 0 and height 0, every rectangle has radius 0.
C14_UnusedFieldsZero ==
    \A i \in 1..Len(shapes) :
        IF shapes[i].type = CIRCLE
        THEN shapes[i].width = Whole(0) /\ shapes[i].height = Whole(0)
        ELSE shapes[i].radius = Whole(0)

\* C15: the in-progress shape and the list agree: at every pointer-up that
\* ends a drawing session the shape being committed equals, field for field,
\* the last entry of the list; and after every event that leaves a session
\* open the list has an entry with the in-progress shape's id and every such
\* entry equals the in-progress shape.
C15_InProgressIsListEntry ==
    [][/\ (UpCommits /\ last'.op = "mouseUp") =>
             /\ shapes # <<>>
             /\ shapes[Len(shapes)] = newShape
       /\ newShape' # Null =>
             /\ \E i \in 1..Len(shapes') : shapes'[i].id = newShape'.id
             /\ \A i \in 1..Len(shapes') :
                   shapes'[i].id = newShape'.id => shapes'[i] = newShape']_vars

\* C16: every creation is logged: whenever no drawing session is open, every
\* entry of the list has had a "create" record logged for its id.
C16_AllCreationsLogged ==
    ~isDrawing => \A i \in 1..Len(shapes) : shapes[i].id \in createLogged

\* positions at which the list differs after the step
Changed == {i \in 1..Len(shapes) : shapes'[i] # shapes[i]}

\* C17: a transform-end or drag-end replaces exactly the target's entry: the
\* list keeps its length and order, the entries at all other positions are
\* unchanged, and the entry at the target's position keeps its id and gets
\* the new geometry (the one logged); a pointer-move during drawing changes
\* at most one entry, one carrying the in-progress shape's id.
C17_ReplacesExactlyTarget ==
    [][/\ last'.op = "transformEnd" =>
             /\ Len(shapes') = Len(shapes)
             /\ Changed \subseteq {last'.at}
             /\ shapes'[last'.at].id = shapes[last'.at].id
             /\ log' = logShapeUpdate("modify", shapes'[last'.at])
       /\ (last'.op = "mouseMove" /\ last'.drawing) =>
             /\ Len(shapes') = Len(shapes)
             /\ Cardinality(Changed) <= 1
             /\ \A i \in Changed : shapes[i].id = newShape.id]_vars

\* C18: a pure move changes only the position: a drag-end or transform-end
\* with scaleX = scaleY = 1 puts the target's entry at a position the node
\* was left at and leaves its stored width, height and radius as they were.
C18_PureMoveKeepsExtent ==
    [][(/\ last'.op = "transformEnd"
        /\ last'.scaleX = Whole(1)
        /\ last'.scaleY = Whole(1)) =>
          LET before == shapes[last'.at]
              after  == shapes'[last'.at]
          IN  /\ \E p \in NodePoints : after.x = p.x /\ after.y = p.y
              /\ after.width = before.width
              /\ after.height = before.height
              /\ after.radius = before.radius]_vars

\* the geometry fields of a logged record
Geometry(r) == <<r.x, r.y, r.width, r.height, r.radius>>

\* C19: the "delete" record describes the shape as it is when deleted: its
\* x, y, width, height and radius are the rounded values of an entry carrying
\* the selected id in the list just before the deletion.
C19_DeleteLogsCurrentShape ==
    [][(selectedShape # Null /\ last'.op = "delete") =>
          /\ Len(log') = 1
          /\ \E i \in 1..Len(shapes) :
                /\ shapes[i].id = selectedShape.id
                /\ Geometry(log'[1].shape) =
                      Geometry(LogRecord("delete", shapes[i]).shape)]_vars

\* C20: the drawing flag is up exactly when an in-progress shape is held,
\* before and after every event; and a pointer-move or a pointer-up that
\* arrives while the flag is down leaves the component's state as it was and
\* logs nothing.
C20_SessionConsistent ==
    [][/\ isDrawing <=> newShape # Null
       /\ isDrawing' <=> newShape' # Null
       /\ (~isDrawing /\ last'.op \in {"mouseMove", "mouseUp"}) =>
             (StateKept /\ log' = <<>>)]_vars

\* with one shape drawn and committed and no session open, a pointer-move
\* has arrived
C20_Witness ==
    /\ last.op = "mouseMove"
    /\ ~last.drawing
    /\ ~isDrawing
    /\ newShape = Null
    /\ shapes # <<>>
    /\ createLogged # {}

=============================================================================
